---- MODULE Spec2Model ----
(***************************************************************************)
(* Model of report.py (North Texas club performance report): the streaming *)
(* HTML table parser, the table extraction heuristics, the page scraper,   *)
(* the aggregation and the ranking.                                        *)
(*                                                                         *)
(* Python str values are sequences of one-character strings, Optional[int] *)
(* is the empty sequence (None) or a one-element sequence, and Python list *)
(* objects that the code shares by reference live in heaps keyed by id.    *)
(***************************************************************************)
EXTENDS Integers, Sequences, FiniteSets, TLC

VARIABLES
    \* SimpleTableParser
    tables, tableHeap, rowHeap, current_table, current_row, current_cell,
    in_table, in_row, in_cell,
    \* ingestion: the input of one run and what it produced
    source, ex_table, collected, csv_rows, loaded, ingest_pc,
    \* scrape_vstar_pages: the URL list, the site, the loop and the CSV file
    urls, web, scrape_pc, fetched, all_results, csv_file, returned,
    \* ReportGenerator._summarize: the records, the loop and the totals dict
    records, totals, sum_pc, sum_i, summaries, calls,
    \* ReportGenerator.rank_clubs
    clubs, ranked, rank_pc,
    \* ReportGenerator.determine_weekend
    result_dates, weekend_args, weekend, weekend_pc

parserVars == <<tables, tableHeap, rowHeap, current_table, current_row,
                current_cell, in_table, in_row, in_cell>>

ingestVars == <<source, ex_table, collected, csv_rows, loaded, ingest_pc>>

scrapeVars == <<urls, web, scrape_pc, fetched, all_results, csv_file, returned>>
summarizeVars == <<records, totals, sum_pc, sum_i, summaries, calls>>
rankVars == <<clubs, ranked, rank_pc>>
weekendVars == <<result_dates, weekend_args, weekend, weekend_pc>>

vars == <<parserVars, ingestVars, scrapeVars, summarizeVars, rankVars, weekendVars>>

nonParserVars == <<ingestVars, scrapeVars, summarizeVars, rankVars, weekendVars>>
nonIngestVars == <<parserVars, scrapeVars, summarizeVars, rankVars, weekendVars>>
nonScrapeVars == <<parserVars, ingestVars, summarizeVars, rankVars, weekendVars>>
nonSummarizeVars == <<parserVars, ingestVars, scrapeVars, rankVars, weekendVars>>
nonRankVars == <<parserVars, ingestVars, scrapeVars, summarizeVars, weekendVars>>
nonWeekendVars == <<parserVars, ingestVars, scrapeVars, summarizeVars, rankVars>>

(***************************************************************************)
(* Bounds                                                                  *)
(***************************************************************************)
MaxTables == 3
MaxRows == 3
MaxCells == 1
MaxFrags == 1

(***************************************************************************)
(* Python values                                                           *)
(***************************************************************************)
None == <<>>
Some(n) == <<n>>

Whitespace == {" ", "\t", "\n"}

RECURSIVE LStrip(_)
LStrip(s) ==
    IF s # <<>> /\ Head(s) \in Whitespace THEN LStrip(Tail(s)) ELSE s

RECURSIVE RStrip(_)
RStrip(s) ==
    IF s # <<>> /\ s[Len(s)] \in Whitespace
    THEN RStrip(SubSeq(s, 1, Len(s) - 1))
    ELSE s

\* str.strip()
Strip(s) == RStrip(LStrip(s))

\* " ".join(parts)
RECURSIVE JoinSpace(_)
JoinSpace(parts) ==
    IF parts = <<>> THEN <<>>
    ELSE IF Len(parts) = 1 THEN parts[1]
    ELSE parts[1] \o <<" ">> \o JoinSpace(Tail(parts))

\* any(iterable) over a list of str or of list: some element is non-empty
AnyTruthy(xs) == \E i \in 1..Len(xs) : xs[i] # <<>>

(***************************************************************************)
(* SimpleTableParser                                                       *)
(***************************************************************************)
Tags == {"table", "tr", "td", "th", "div"}
CellTags == {"th", "td"}
DataInputs == {<<"x">>, <<" ">>}

\* the row lists of a table object, by value
TableValue(t) == [i \in 1..Len(tableHeap[t]) |-> rowHeap[tableHeap[t][i]]]

\* parser.tables, by value
TablesValue == [i \in 1..Len(tables) |-> TableValue(tables[i])]

ParserInit ==
    /\ tables = <<>>
    /\ tableHeap = <<(<<>>)>>
    /\ rowHeap = <<(<<>>)>>
    /\ current_table = 1
    /\ current_row = 1
    /\ current_cell = <<>>
    /\ in_table = FALSE
    /\ in_row = FALSE
    /\ in_cell = FALSE

StartTable ==
    /\ Len(tableHeap) < MaxTables
    /\ in_table' = TRUE
    /\ tableHeap' = Append(tableHeap, <<>>)
    /\ current_table' = Len(tableHeap) + 1
    /\ UNCHANGED <<tables, rowHeap, current_row, current_cell, in_row, in_cell>>
    /\ UNCHANGED nonParserVars

StartRow ==
    /\ in_table
    /\ Len(rowHeap) < MaxRows
    /\ in_row' = TRUE
    /\ rowHeap' = Append(rowHeap, <<>>)
    /\ current_row' = Len(rowHeap) + 1
    /\ UNCHANGED <<tables, tableHeap, current_table, current_cell, in_table, in_cell>>
    /\ UNCHANGED nonParserVars

StartCell ==
    /\ in_row
    /\ in_cell' = TRUE
    /\ current_cell' = <<>>
    /\ UNCHANGED <<tables, tableHeap, rowHeap, current_table, current_row,
                   in_table, in_row>>
    /\ UNCHANGED nonParserVars

\* a start tag that no branch of handle_starttag accepts
StartIgnored(tag) ==
    /\ tag # "table"
    /\ ~(tag = "tr" /\ in_table)
    /\ ~(tag \in CellTags /\ in_row)
    /\ UNCHANGED vars

handle_starttag(tag) ==
    \/ tag = "table" /\ StartTable
    \/ tag = "tr" /\ StartRow
    \/ tag \in CellTags /\ StartCell
    \/ StartIgnored(tag)

handle_data(data) ==
    /\ IF in_cell /\ Strip(data) # <<>>
       THEN /\ Len(current_cell) < MaxFrags
            /\ current_cell' = Append(current_cell, Strip(data))
       ELSE UNCHANGED current_cell
    /\ UNCHANGED <<tables, tableHeap, rowHeap, current_table, current_row,
                   in_table, in_row, in_cell>>
    /\ UNCHANGED nonParserVars

EndCell ==
    /\ in_cell
    /\ Len(rowHeap[current_row]) < MaxCells
    /\ rowHeap' = [rowHeap EXCEPT
                     ![current_row] = Append(@, Strip(JoinSpace(current_cell)))]
    /\ in_cell' = FALSE
    /\ UNCHANGED <<tables, tableHeap, current_table, current_row, current_cell,
                   in_table, in_row>>
    /\ UNCHANGED nonParserVars

\* handle_endtag("tr") without the any(self._current_row) test
EndRowKeepAll ==
    /\ in_row
    /\ tableHeap' = [tableHeap EXCEPT ![current_table] = Append(@, current_row)]
    /\ in_row' = FALSE
    /\ UNCHANGED <<tables, rowHeap, current_table, current_row, current_cell,
                   in_table, in_cell>>
    /\ UNCHANGED nonParserVars

EndRow ==
    /\ in_row
    /\ tableHeap' = IF AnyTruthy(rowHeap[current_row])
                    THEN [tableHeap EXCEPT ![current_table] = Append(@, current_row)]
                    ELSE tableHeap
    /\ in_row' = FALSE
    /\ UNCHANGED <<tables, rowHeap, current_table, current_row, current_cell,
                   in_table, in_cell>>
    /\ UNCHANGED nonParserVars

EndTable ==
    /\ in_table
    /\ tables' = IF AnyTruthy(TableValue(current_table))
                 THEN Append(tables, current_table)
                 ELSE tables
    /\ in_table' = FALSE
    /\ UNCHANGED <<tableHeap, rowHeap, current_table, current_row, current_cell,
                   in_row, in_cell>>
    /\ UNCHANGED nonParserVars

\* an end tag that no branch of handle_endtag accepts
EndIgnored(tag) ==
    /\ ~(tag \in CellTags /\ in_cell)
    /\ ~(tag = "tr" /\ in_row)
    /\ ~(tag = "table" /\ in_table)
    /\ UNCHANGED vars

handle_endtag(tag) ==
    \/ tag \in CellTags /\ EndCell
    \/ tag = "tr" /\ EndRow
    \/ tag = "table" /\ EndTable
    \/ EndIgnored(tag)

ParserNext ==
    \/ \E tag \in Tags : handle_starttag(tag)
    \/ \E data \in DataInputs : handle_data(data)
    \/ \E tag \in Tags : handle_endtag(tag)

\* C9: every table in parser.tables has at least one row, and every row of
\* every such table has at least one non-empty cell.
C9_RetainedTablesNonEmpty ==
    \A i \in 1..Len(tables) :
        /\ Len(tableHeap[tables[i]]) >= 1
        /\ \A j \in 1..Len(tableHeap[tables[i]]) :
               AnyTruthy(rowHeap[tableHeap[tables[i]][j]])

\* C9 witness: unbalanced markup; a retained table holds two rows, the second
\* one closed while a cell of it was still open.
C9_Witness ==
    /\ Len(tables) >= 1
    /\ ~in_table /\ ~in_row /\ in_cell
    /\ tables[Len(tables)] = current_table
    /\ Len(tableHeap[current_table]) = 2
    /\ tableHeap[current_table][2] = current_row
    /\ rowHeap[current_row] = << <<"x">> >>

FlagsNested == (in_cell => in_row) /\ (in_row => in_table)

\* C10: the parser flags always satisfy in_cell => in_row => in_table, and a
\* table already appended to parser.tables is never changed by a later event.
C10_NestedStatesFrozenTables ==
    [][/\ FlagsNested'
       /\ \A i \in 1..Len(tables) : TablesValue'[i] = TablesValue[i]]_vars

(***************************************************************************)
(* Text helpers of the extraction heuristics                               *)
(***************************************************************************)
UpperCase == <<"A","B","C","D","E","F","G","H","I","J","K","L","M",
               "N","O","P","Q","R","S","T","U","V","W","X","Y","Z">>
LowerCase == <<"a","b","c","d","e","f","g","h","i","j","k","l","m",
               "n","o","p","q","r","s","t","u","v","w","x","y","z">>

LowerChar(c) ==
    IF \E i \in 1..26 : UpperCase[i] = c
    THEN LowerCase[CHOOSE i \in 1..26 : UpperCase[i] = c]
    ELSE c

\* str.lower()
Lower(s) == [i \in 1..Len(s) |-> LowerChar(s[i])]

\* candidate in header_lower
Contains(s, sub) ==
    \E i \in 1..(Len(s) - Len(sub) + 1) : SubSeq(s, i, i + Len(sub) - 1) = sub

DigitChars == <<"0","1","2","3","4","5","6","7","8","9">>
IsDigit(c) == \E i \in 1..10 : DigitChars[i] = c
DigitVal(c) == (CHOOSE i \in 1..10 : DigitChars[i] = c) - 1

\* int() of a run of decimal digits
RECURSIVE IntOfDigits(_)
IntOfDigits(ds) ==
    IF ds = <<>> THEN 0
    ELSE 10 * IntOfDigits(SubSeq(ds, 1, Len(ds) - 1)) + DigitVal(ds[Len(ds)])

\* the last index of the maximal digit run that starts at i
RECURSIVE RunEnd(_, _)
RunEnd(s, i) ==
    IF i < Len(s) /\ IsDigit(s[i + 1]) THEN RunEnd(s, i + 1) ELSE i

\* the first index at or after i that holds no whitespace
RECURSIVE SkipSpace(_, _)
SkipSpace(s, i) ==
    IF i <= Len(s) /\ s[i] \in Whitespace THEN SkipSpace(s, i + 1) ELSE i

_index_for(headers, candidates) ==
    LET hit(i) == \E c \in candidates : Contains(Lower(headers[i]), c)
    IN  IF \E i \in 1..Len(headers) : hit(i)
        THEN Some(CHOOSE i \in 1..Len(headers) :
                     hit(i) /\ \A j \in 1..(i - 1) : ~hit(j))
        ELSE None

_parse_int(value) ==
    IF \E i \in 1..Len(value) : IsDigit(value[i])
    THEN LET i == CHOOSE i \in 1..Len(value) :
                     IsDigit(value[i]) /\ \A j \in 1..(i - 1) : ~IsDigit(value[j])
         IN  Some(IntOfDigits(SubSeq(value, i, RunEnd(value, i))))
    ELSE None

\* (\d+)\s*[-/]\s*(\d+) anchored at i: the first group is the whole digit run
\* (a shorter one is followed by a digit, which matches neither \s nor [-/])
RecordMatchAt(s, i) ==
    IF ~IsDigit(s[i]) THEN None
    ELSE LET e1 == RunEnd(s, i)
             p == SkipSpace(s, e1 + 1)
         IN  IF p > Len(s) \/ s[p] \notin {"-", "/"} THEN None
             ELSE LET q == SkipSpace(s, p + 1)
                  IN  IF q > Len(s) \/ ~IsDigit(s[q]) THEN None
                      ELSE <<IntOfDigits(SubSeq(s, i, e1)),
                             IntOfDigits(SubSeq(s, q, RunEnd(s, q)))>>

\* re.search: the match at the leftmost position that has one
_parse_record(value) ==
    IF \E i \in 1..Len(value) : RecordMatchAt(value, i) # None
    THEN RecordMatchAt(value,
             CHOOSE i \in 1..Len(value) :
                 /\ RecordMatchAt(value, i) # None
                 /\ \A j \in 1..(i - 1) : RecordMatchAt(value, j) = None)
    ELSE None

IsLeap(y) == (y % 4 = 0 /\ y % 100 # 0) \/ y % 400 = 0
DaysInMonth(y, m) ==
    IF m = 2 THEN (IF IsLeap(y) THEN 29 ELSE 28)
    ELSE IF m \in {4, 6, 9, 11} THEN 30 ELSE 31

\* parse_date: dt.date.fromisoformat on YYYY-MM-DD text; None stands for the
\* ArgumentTypeError raised for anything else (the inputs drawn below hold no
\* text in another ISO 8601 form, which newer interpreters also accept)
parse_date(value) ==
    IF /\ Len(value) = 10
       /\ \A i \in {1, 2, 3, 4, 6, 7, 9, 10} : IsDigit(value[i])
       /\ value[5] = "-" /\ value[8] = "-"
    THEN LET y == IntOfDigits(SubSeq(value, 1, 4))
             m == IntOfDigits(SubSeq(value, 6, 7))
             d == IntOfDigits(SubSeq(value, 9, 10))
         IN  IF y >= 1 /\ m \in 1..12 /\ d >= 1 /\ d <= DaysInMonth(y, m)
             THEN Some([year |-> y, month |-> m, day |-> d])
             ELSE None
    ELSE None

(***************************************************************************)
(* extract_results_from_tables                                             *)
(***************************************************************************)
DateCandidates == {<<"d","a","t","e">>}
ClubCandidates == {<<"c","l","u","b">>, <<"t","e","a","m">>}
TournamentCandidates == {<<"t","o","u","r","n","a","m","e","n","t">>, <<"e","v","e","n","t">>, <<"d","i","v","i","s","i","o","n">>}
FinishCandidates == {<<"f","i","n","i","s","h">>, <<"p","l","a","c","e">>, <<"r","a","n","k">>}
WinsCandidates == {<<"w","i","n","s">>, <<"w","i","n">>, <<"w">>}
LossesCandidates == {<<"l","o","s","s","e","s">>, <<"l","o","s","s">>, <<"l">>}
RecordCandidates == {<<"r","e","c","o","r","d">>, <<"w","i","n","-","l","o","s","s">>, <<"w","-","l">>}

\* the column indexes of one table (1-based; the code's are 0-based)
ColumnIndexes(headers) ==
    [date_idx |-> _index_for(headers, DateCandidates),
     club_idx |-> _index_for(headers, ClubCandidates),
     tournament_idx |-> _index_for(headers, TournamentCandidates),
     finish_idx |-> _index_for(headers, FinishCandidates),
     wins_idx |-> _index_for(headers, WinsCandidates),
     losses_idx |-> _index_for(headers, LossesCandidates),
     record_idx |-> _index_for(headers, RecordCandidates)]

\* the part of the row loop that sets wins and losses
WinsLosses(ix, row) ==
    LET wins0 == IF ix.wins_idx # None THEN _parse_int(row[ix.wins_idx[1]]) ELSE None
        losses0 == IF ix.losses_idx # None THEN _parse_int(row[ix.losses_idx[1]]) ELSE None
        parsed_record == IF (wins0 = None \/ losses0 = None) /\ ix.record_idx # None
                         THEN _parse_record(row[ix.record_idx[1]])
                         ELSE None
        wins1 == IF parsed_record # None THEN Some(parsed_record[1]) ELSE wins0
        losses1 == IF parsed_record # None THEN Some(parsed_record[2]) ELSE losses0
    IN  [wins |-> IF wins1 # None THEN wins1[1] ELSE 0,
         losses |-> IF losses1 # None THEN losses1[1] ELSE 0]

\* the tournament label of a row
TournamentName(ix, row, fallback_tournament) ==
    IF ix.tournament_idx # None /\ Strip(row[ix.tournament_idx[1]]) # <<>>
    THEN Strip(row[ix.tournament_idx[1]])
    ELSE fallback_tournament

\* one pass of the row loop: the records the row adds to collected (0 or 1)
ExtractRow(headers, row, fallback_tournament) ==
    LET ix == ColumnIndexes(headers)
    IN  IF Len(row) < Len(headers) THEN <<>>
        ELSE IF parse_date(row[ix.date_idx[1]]) = None THEN <<>>
        ELSE IF Strip(row[ix.club_idx[1]]) = <<>> THEN <<>>
        ELSE LET wl == WinsLosses(ix, row)
             IN  <<[date |-> parse_date(row[ix.date_idx[1]])[1],
                    club |-> Strip(row[ix.club_idx[1]]),
                    tournament |-> TournamentName(ix, row, fallback_tournament),
                    finish |-> IF ix.finish_idx # None
                               THEN _parse_int(row[ix.finish_idx[1]])
                               ELSE None,
                    wins |-> wl.wins,
                    losses |-> wl.losses]>>

RECURSIVE ExtractRows(_, _, _)
ExtractRows(headers, rows, fallback_tournament) ==
    IF rows = <<>> THEN <<>>
    ELSE ExtractRow(headers, Head(rows), fallback_tournament)
         \o ExtractRows(headers, Tail(rows), fallback_tournament)

\* one pass of the table loop; a table is <<headers, rows>>
ExtractTable(table, fallback_tournament) ==
    LET headers == table[1]
        rows == table[2]
    IN  IF headers = <<>> \/ rows = <<>> THEN <<>>
        ELSE IF \/ _index_for(headers, DateCandidates) = None
                \/ _index_for(headers, ClubCandidates) = None
             THEN <<>>
        ELSE ExtractRows(headers, rows, fallback_tournament)

RECURSIVE extract_results_from_tables(_, _)
extract_results_from_tables(tbls, fallback_tournament) ==
    IF tbls = <<>> THEN <<>>
    ELSE ExtractTable(Head(tbls), fallback_tournament)
         \o extract_results_from_tables(Tail(tbls), fallback_tournament)

\* parse_html_tables on parser.tables: the first row of a table is its headers
RECURSIVE parse_html_tables(_)
parse_html_tables(parsed) ==
    IF parsed = <<>> THEN <<>>
    ELSE (IF Head(parsed) = <<>> THEN <<>>
          ELSE << <<Head(parsed)[1], Tail(Head(parsed))>> >>)
         \o parse_html_tables(Tail(parsed))

(***************************************************************************)
(* load_results                                                            *)
(***************************************************************************)
\* int(text): optional sign and decimal digits, surrounding whitespace
\* ignored; None stands for the ValueError raised for anything else
py_int(text) ==
    LET t == Strip(text)
        neg == t # <<>> /\ Head(t) = "-"
        ds == IF t # <<>> /\ Head(t) \in {"-", "+"} THEN Tail(t) ELSE t
    IN  IF ds # <<>> /\ \A i \in 1..Len(ds) : IsDigit(ds[i])
        THEN Some(IF neg THEN 0 - IntOfDigits(ds) ELSE IntOfDigits(ds))
        ELSE None

\* whether the body of the row loop raises on this row
LoadRowRaises(row) ==
    \/ parse_date(row.date) = None
    \/ row.finish # <<>> /\ py_int(row.finish) = None
    \/ py_int(row.wins) = None
    \/ py_int(row.losses) = None

\* the TournamentResult the row loop appends
LoadRow(row) ==
    [date |-> parse_date(row.date)[1],
     club |-> Strip(row.club),
     tournament |-> Strip(row.tournament),
     finish |-> IF row.finish # <<>> THEN py_int(row.finish) ELSE None,
     wins |-> py_int(row.wins)[1],
     losses |-> py_int(row.losses)[1]]

\* load_results on the rows of a CSV that has every required column:
\* [ok |-> FALSE] when a row raises, else the records
load_results(rows) ==
    IF \E i \in 1..Len(rows) : LoadRowRaises(rows[i])
    THEN [ok |-> FALSE, results |-> <<>>]
    ELSE [ok |-> TRUE, results |-> [i \in 1..Len(rows) |-> LoadRow(rows[i])]]

(***************************************************************************)
(* Ingestion: one extraction call and one CSV load on drawn inputs         *)
(***************************************************************************)
MaxRowsPerTable == 1
MaxCsvRows == 1

HeaderLayouts ==
    { <<<<"D","a","t","e">>, <<"T","e","a","m">>, <<"P","l","a","c","e">>, <<"R","e","c","o","r","d">>>>,
      <<<<"D","a","t","e">>, <<"C","l","u","b">>, <<"W","i","n","s">>, <<"L","o","s","s","e","s">>>>,
      <<<<"D","a","t","e">>, <<"T","e","a","m">>, <<"W","i","n","s">>, <<"L","o","s","s","e","s">>>>,
      <<<<"D","a","t","e">>, <<"T","e","a","m">>, <<"W">>, <<"L">>>>,
      <<<<"D","a","t","e">>, <<"T","e","a","m">>, <<"W","-","L">>>>,
      <<<<"D","a","t","e">>, <<"C","l","u","b">>, <<"W","i","n","-","L","o","s","s">>>>,
      <<<<"D","a","t","e">>, <<"C","l","u","b">>, <<"R","e","c","o","r","d">>>>,
      <<<<"D","a","t","e">>, <<"T","e","a","m">>, <<"E","v","e","n","t">>, <<"P","l","a","c","e">>>>,
      <<<<"T","e","a","m">>, <<"P","l","a","c","e">>>> }

DateCells == {<<"2","0","2","4","-","0","3","-","0","2">>, <<"2","0","2","4","-","0","2","-","3","0">>}
ClubCells == {<<"A","c","e","s">>, <<"A","c","e","s"," ","1","7">>, <<" ">>}
WinsCells == {<<"1","0">>, <<"n","/","a">>}
LossesCells == {<<"3">>, <<"-">>}
RecordCells == {<<"1","2","-","4">>, <<"1","2"," ","/"," ","4">>, <<"t","b","d">>}
PlaceCells == {<<"2","n","d">>, <<"0">>, <<"D","N","F">>}
EventCells == {<<"C","u","p">>, <<>>}

CellsFor(header) ==
    IF header = <<"D","a","t","e">> THEN DateCells
    ELSE IF header \in {<<"T","e","a","m">>, <<"C","l","u","b">>} THEN ClubCells
    ELSE IF header \in {<<"W","i","n","s">>, <<"W">>} THEN WinsCells
    ELSE IF header \in {<<"L","o","s","s","e","s">>, <<"L">>} THEN LossesCells
    ELSE IF header \in {<<"R","e","c","o","r","d">>, <<"W","-","L">>, <<"W","i","n","-","L","o","s","s">>} THEN RecordCells
    ELSE IF header = <<"P","l","a","c","e">> THEN PlaceCells
    ELSE EventCells

\* the rows a table with these headers may hold, a truncated one among them
RowsFor(headers) ==
    { r \in [1..Len(headers) -> UNION {CellsFor(headers[i]) : i \in 1..Len(headers)}] :
        \A i \in 1..Len(headers) : r[i] \in CellsFor(headers[i]) }
    \cup { <<<<"2","0","2","4","-","0","3","-","0","2">>>> }

SeqsUpTo(S, n) == UNION { [1..k -> S] : k \in 0..n }

TableInputs ==
    UNION { { <<h, rows>> : rows \in SeqsUpTo(RowsFor(h), MaxRowsPerTable) } :
            h \in HeaderLayouts }

FallbackTitle == <<"S","p","r","i","n","g"," ","O","p","e","n">>

CsvRowInputs ==
    [date : DateCells, club : {<<"A","c","e","s">>}, tournament : {<<"C","u","p">>},
     finish : {<<>>, <<"1">>, <<"0">>, <<"-","2">>}, wins : {<<"3">>, <<"-","1">>, <<"x">>},
     losses : {<<"0">>, <<"2">>}]

IngestIdle ==
    /\ source = "none"
    /\ ex_table = <<(<<>>), <<>>>>
    /\ collected = <<>>
    /\ csv_rows = <<>>
    /\ loaded = <<>>
    /\ ingest_pc = "idle"

IngestInit ==
    /\ \/ /\ source = "html"
          /\ ex_table \in TableInputs
          /\ csv_rows = <<>>
       \/ /\ source = "csv"
          /\ ex_table = <<(<<>>), <<>>>>
          /\ csv_rows \in SeqsUpTo(CsvRowInputs, MaxCsvRows)
    /\ collected = <<>>
    /\ loaded = <<>>
    /\ ingest_pc = "ready"

\* extract_results_from_tables(parsed_tables, fallback_tournament=page_title)
Extract ==
    /\ ingest_pc = "ready" /\ source = "html"
    /\ collected' = extract_results_from_tables(<<ex_table>>, FallbackTitle)
    /\ ingest_pc' = "done"
    /\ UNCHANGED <<source, ex_table, csv_rows, loaded>>
    /\ UNCHANGED nonIngestVars

\* load_results(path)
Load ==
    /\ ingest_pc = "ready" /\ source = "csv"
    /\ loaded' = load_results(csv_rows).results
    /\ ingest_pc' = IF load_results(csv_rows).ok THEN "done" ELSE "raised"
    /\ UNCHANGED <<source, ex_table, csv_rows, collected>>
    /\ UNCHANGED nonIngestVars

IngestNext == Extract \/ Load

(***************************************************************************)
(* Claims about ingestion                                                  *)
(***************************************************************************)
\* the rows of the extracted table that pass row admission: long enough, a
\* calendar date in the date column, a non-blank club
AdmittedRows ==
    LET headers == ex_table[1]
        ix == ColumnIndexes(headers)
        admitted(row) ==
            /\ Len(row) >= Len(headers)
            /\ parse_date(row[ix.date_idx[1]]) # None
            /\ Strip(row[ix.club_idx[1]]) # <<>>
    IN  SelectSeq(ex_table[2], admitted)

HasAnchors(headers) ==
    /\ _index_for(headers, DateCandidates) # None
    /\ _index_for(headers, ClubCandidates) # None

\* the column a reader takes for the named one: its header, lowercased and
\* trimmed, is one of the names
ColumnNamed(headers, names) ==
    { i \in 1..Len(headers) : Strip(Lower(headers[i])) \in names }

\* C3: in a table with a date, a club and a combined record column and no
\* separate wins or losses column, every admitted row whose record cell reads
\* "A-B" or "A / B" yields wins = A and losses = B.
C3_RecordCellGivesWinsAndLosses ==
    (ingest_pc = "done" /\ source = "html") =>
        LET headers == ex_table[1]
            rec == _index_for(headers, RecordCandidates)
        IN  ( /\ HasAnchors(headers)
              /\ rec # None
              /\ ColumnNamed(headers, {<<"w","i","n","s">>, <<"w","i","n">>, <<"w">>}) = {}
              /\ ColumnNamed(headers, {<<"l","o","s","s","e","s">>, <<"l","o","s","s">>, <<"l">>}) = {} ) =>
            /\ Len(collected) = Len(AdmittedRows)
            /\ \A j \in 1..Len(AdmittedRows) :
                 LET ab == _parse_record(AdmittedRows[j][rec[1]])
                 IN  ab # None =>
                       /\ collected[j].wins = ab[1]
                       /\ collected[j].losses = ab[2]

\* C4: in a table with a date, a club, a wins and a losses column, every
\* admitted row yields wins = the first digit run of its wins cell and
\* losses = the first digit run of its losses cell.
C4_WinsAndLossesColumnsAreRead ==
    (ingest_pc = "done" /\ source = "html") =>
        LET headers == ex_table[1]
            wcols == ColumnNamed(headers, {<<"w","i","n","s">>, <<"w">>})
            lcols == ColumnNamed(headers, {<<"l","o","s","s","e","s">>, <<"l">>})
        IN  (HasAnchors(headers) /\ wcols # {} /\ lcols # {}) =>
            /\ Len(collected) = Len(AdmittedRows)
            /\ \A j \in 1..Len(AdmittedRows) :
                 LET w == _parse_int(AdmittedRows[j][CHOOSE i \in wcols : TRUE])
                     l == _parse_int(AdmittedRows[j][CHOOSE i \in lcols : TRUE])
                 IN  /\ w # None => collected[j].wins = w[1]
                     /\ l # None => collected[j].losses = l[1]

ValidResult(r) ==
    /\ r.wins >= 0
    /\ r.losses >= 0
    /\ r.finish = None \/ r.finish[1] >= 1

\* C5: every TournamentResult created by extract_results_from_tables or by
\* load_results has wins >= 0, losses >= 0 and a finish that is absent or >= 1.
C5_IngestedResultsAreValid ==
    /\ \A j \in 1..Len(collected) : ValidResult(collected[j])
    /\ \A j \in 1..Len(loaded) : ValidResult(loaded[j])

(***************************************************************************)
(* scrape_vstar_pages                                                      *)
(***************************************************************************)
MaxUrls == 2

\* str(n) for n >= 0
RECURSIVE IntToStr(_)
IntToStr(n) ==
    IF n < 10 THEN <<DigitChars[n + 1]>>
    ELSE IntToStr(n \div 10) \o <<DigitChars[(n % 10) + 1]>>

RECURSIVE ZeroPad(_, _)
ZeroPad(s, width) == IF Len(s) >= width THEN s ELSE ZeroPad(<<"0">> \o s, width)

\* date.isoformat()
IsoFormat(d) ==
    ZeroPad(IntToStr(d.year), 4) \o <<"-">> \o ZeroPad(IntToStr(d.month), 2)
    \o <<"-">> \o ZeroPad(IntToStr(d.day), 2)

CsvHeader == <<<<"d","a","t","e">>, <<"c","l","u","b">>, <<"t","o","u","r","n","a","m","e","n","t">>, <<"f","i","n","i","s","h">>, <<"w","i","n","s">>, <<"l","o","s","s","e","s">>>>

\* the row written for one result
CsvRow(result) ==
    <<IsoFormat(result.date), result.club, result.tournament,
      IF result.finish # None THEN IntToStr(result.finish[1]) ELSE <<>>,
      IntToStr(result.wins), IntToStr(result.losses)>>

\* the file the final block writes
CsvOf(results) == <<CsvHeader>> \o [i \in 1..Len(results) |-> CsvRow(results[i])]

\* what the destination held before the call
PrevCsv == <<CsvHeader, <<<<"2","0","2","3","-","1","1","-","0","4">>, <<"O","l","d">>, <<"F","a","l","l">>, <<>>, <<"1">>, <<"1">>>>>>

UrlSet == {<<"h","t","t","p",":","/","/","v","/","1">>, <<"h","t","t","p",":","/","/","v","/","2">>}

ResultsTable(club) ==
    << <<<<"D","a","t","e">>, <<"T","e","a","m">>, <<"P","l","a","c","e">>>>, <<<<"2","0","2","4","-","0","3","-","0","2">>, club, <<"2","n","d">>>> >>

\* a page: how the fetch ends, the text inside <title>...</title> (None when
\* the page has no title element) and the tables SimpleTableParser retains
Pages ==
    { [fetch |-> "HTTPError", title |-> None, tables |-> <<>>],
      [fetch |-> "URLError", title |-> None, tables |-> <<>>],
      [fetch |-> "ok", title |-> Some(<<" ","S","p","r","i","n","g"," ","O","p","e","n"," ">>),
       tables |-> <<ResultsTable(<<"A","c","e","s">>)>>],
      [fetch |-> "ok", title |-> None, tables |-> <<ResultsTable(<<"B","e","e","s">>)>>],
      [fetch |-> "ok", title |-> Some(<<" ">>), tables |-> <<ResultsTable(<<"C","a","t","s">>)>>],
      [fetch |-> "ok", title |-> Some(<<"O","p","e","n">>),
       tables |-> << << <<<<"D","a","t","e">>, <<"T","e","a","m">>, <<"E","v","e","n","t">>>>,
                        <<<<"2","0","2","4","-","0","3","-","0","9">>, <<"A","c","e","s">>, <<"C","u","p">>>>,
                        <<<<"2","0","2","4","-","0","3","-","0","9">>, <<"B","e","e","s">>, <<>>>> >> >>],
      [fetch |-> "ok", title |-> Some(<<"L","o","g","i","n">>), tables |-> <<>>],
      [fetch |-> "ok", title |-> Some(<<"N","e","w","s">>),
       tables |-> << << <<<<"D","a","t","e">>, <<"T","e","a","m">>>>, <<<<"s","o","o","n">>, <<"A","c","e","s">>>> >>,
                     << <<<<"I","t","e","m">>, <<"P","r","i","c","e">>>>, <<<<"B","a","l","l">>, <<"2","0">>>> >> >>] }

\* page_title: the trimmed title text, or the URL without a title element
PageTitle(url, page) == IF page.title # None THEN Strip(page.title[1]) ELSE url

\* page_results of one loop pass
PageResults(url, page) ==
    extract_results_from_tables(parse_html_tables(page.tables), PageTitle(url, page))

ScrapeInit ==
    /\ urls \in SeqsUpTo(UrlSet, MaxUrls)
    /\ web \in [UrlSet -> Pages]
    /\ scrape_pc = "called"
    /\ fetched = <<>>
    /\ all_results = <<>>
    /\ csv_file = PrevCsv
    /\ returned = None

\* entry: the empty-list check and the mkdir
ScrapeBegin ==
    /\ scrape_pc = "called"
    /\ scrape_pc' = IF urls = <<>> THEN "raised" ELSE "loop"
    /\ UNCHANGED <<urls, web, fetched, all_results, csv_file, returned>>
    /\ UNCHANGED nonScrapeVars

\* one pass of the loop over urls, with every page kept whatever it yields
ScrapePageTolerant ==
    /\ scrape_pc = "loop"
    /\ Len(fetched) < Len(urls)
    /\ LET url == urls[Len(fetched) + 1]
           page == web[url]
       IN  /\ fetched' = Append(fetched, url)
           /\ IF page.fetch # "ok"
              THEN scrape_pc' = "raised" /\ UNCHANGED all_results
              ELSE /\ all_results' = all_results \o PageResults(url, page)
                   /\ UNCHANGED scrape_pc
    /\ UNCHANGED <<urls, web, csv_file, returned>>
    /\ UNCHANGED nonScrapeVars

\* one pass of the loop over urls
ScrapePage ==
    /\ scrape_pc = "loop"
    /\ Len(fetched) < Len(urls)
    /\ LET url == urls[Len(fetched) + 1]
           page == web[url]
       IN  /\ fetched' = Append(fetched, url)
           /\ IF page.fetch # "ok"
              THEN scrape_pc' = "raised" /\ UNCHANGED all_results
              ELSE IF PageResults(url, page) = <<>>
              THEN scrape_pc' = "raised" /\ UNCHANGED all_results
              ELSE /\ all_results' = all_results \o PageResults(url, page)
                   /\ UNCHANGED scrape_pc
    /\ UNCHANGED <<urls, web, csv_file, returned>>
    /\ UNCHANGED nonScrapeVars

\* after the loop: write the CSV and return
ScrapeWrite ==
    /\ scrape_pc = "loop"
    /\ Len(fetched) = Len(urls)
    /\ csv_file' = CsvOf(all_results)
    /\ returned' = Some(all_results)
    /\ scrape_pc' = "returned"
    /\ UNCHANGED <<urls, web, fetched, all_results>>
    /\ UNCHANGED nonScrapeVars

ScrapeNext == ScrapeBegin \/ ScrapePage \/ ScrapeWrite

(***************************************************************************)
(* Claims about scraping                                                   *)
(***************************************************************************)
\* the fetch of the page fails or the page yields no record
PageFails(url) == web[url].fetch # "ok" \/ PageResults(url, web[url]) = <<>>

RECURSIVE RecordsOfPages(_)
RecordsOfPages(us) ==
    IF us = <<>> THEN <<>>
    ELSE PageResults(Head(us), web[Head(us)]) \o RecordsOfPages(Tail(us))

\* C2: pages are fetched in the order supplied; a page whose fetch fails or
\* that yields no record ends the call in an error, with no later page
\* fetched, nothing returned and the CSV left as it was; the CSV is written
\* only after every page yielded a record, and then holds all pages' records
\* in page order.
C2_ScrapeIsAllOrNothing ==
    /\ fetched = SubSeq(urls, 1, Len(fetched))
    /\ \A i \in 1..Len(fetched) :
          PageFails(urls[i]) => (i = Len(fetched) /\ scrape_pc = "raised")
    /\ scrape_pc # "returned" => (csv_file = PrevCsv /\ returned = None)
    /\ scrape_pc = "returned" =>
          /\ fetched = urls
          /\ \A i \in 1..Len(urls) : ~PageFails(urls[i])
          /\ returned = Some(RecordsOfPages(urls))
          /\ csv_file = CsvOf(RecordsOfPages(urls))

\* C2 witness: the second of two pages failed after the first had yielded
\* records; the call raised and the CSV is untouched.
C2_Witness ==
    /\ scrape_pc = "raised"
    /\ Len(urls) = 2 /\ fetched = urls
    /\ all_results # <<>>
    /\ csv_file = PrevCsv

\* C6: every record the scraping pipeline produces has a non-empty
\* tournament label.
C6_TournamentLabelNonEmpty ==
    \A i \in 1..Len(all_results) : all_results[i].tournament # <<>>

(***************************************************************************)
(* ReportGenerator._summarize                                              *)
(***************************************************************************)
MaxRecords == 3
MaxCalls == 2

\* the fields of a TournamentResult that _summarize reads
ResultInputs ==
    { [club |-> c, finish |-> f, wins |-> wl[1], losses |-> wl[2]] :
        c \in {<<"A","c","e","s">>, <<"a","c","e","s">>}, f \in {None, Some(1), Some(3)},
        wl \in {<<0, 1>>, <<2, 0>>} }

SummarizeInit ==
    /\ records \in SeqsUpTo(ResultInputs, MaxRecords)
    /\ totals = <<>>
    /\ sum_pc = "ready"
    /\ sum_i = 0
    /\ summaries = <<>>
    /\ calls = 0

\* a call that goes on with the totals of the call before
SummarizeBeginKeepTotals ==
    /\ sum_pc = "ready"
    /\ calls < MaxCalls
    /\ sum_i' = 0
    /\ sum_pc' = "loop"
    /\ UNCHANGED <<records, totals, summaries, calls>>
    /\ UNCHANGED nonSummarizeVars

\* entry of a call (weekend_report or season_report): totals = {}
SummarizeBegin ==
    /\ sum_pc = "ready"
    /\ calls < MaxCalls
    /\ totals' = <<>>
    /\ sum_i' = 0
    /\ sum_pc' = "loop"
    /\ UNCHANGED <<records, summaries, calls>>
    /\ UNCHANGED nonSummarizeVars

\* totals after setdefault: a dict keeps its keys in insertion order
SetDefault(dict, club) ==
    IF \E p \in 1..Len(dict) : dict[p].club = club THEN dict
    ELSE Append(dict, [club |-> club, tournaments |-> 0, wins |-> 0,
                       losses |-> 0, finishes |-> <<>>])

\* one pass of the loop over records
SummarizeStep ==
    /\ sum_pc = "loop"
    /\ sum_i < Len(records)
    /\ LET result == records[sum_i + 1]
           dict == SetDefault(totals, result.club)
           p == CHOOSE p \in 1..Len(dict) : dict[p].club = result.club
       IN  totals' = [dict EXCEPT
               ![p] = [club |-> @.club,
                       tournaments |-> @.tournaments + 1,
                       wins |-> @.wins + result.wins,
                       losses |-> @.losses + result.losses,
                       finishes |-> IF result.finish # None
                                    THEN Append(@.finishes, result.finish[1])
                                    ELSE @.finishes]]
    /\ sum_i' = sum_i + 1
    /\ UNCHANGED <<records, sum_pc, summaries, calls>>
    /\ UNCHANGED nonSummarizeVars

\* return list(totals.values())
SummarizeReturn ==
    /\ sum_pc = "loop"
    /\ sum_i = Len(records)
    /\ summaries' = totals
    /\ calls' = calls + 1
    /\ sum_pc' = "ready"
    /\ UNCHANGED <<records, totals, sum_i>>
    /\ UNCHANGED nonSummarizeVars

SummarizeNext == SummarizeBegin \/ SummarizeStep \/ SummarizeReturn

(***************************************************************************)
(* Claims about aggregation                                                *)
(***************************************************************************)
RecordsOf(club) == SelectSeq(records, LAMBDA r : r.club = club)

RECURSIVE SumWins(_)
SumWins(rs) == IF rs = <<>> THEN 0 ELSE Head(rs).wins + SumWins(Tail(rs))

RECURSIVE SumLosses(_)
SumLosses(rs) == IF rs = <<>> THEN 0 ELSE Head(rs).losses + SumLosses(Tail(rs))

RECURSIVE FinishesOf(_)
FinishesOf(rs) ==
    IF rs = <<>> THEN <<>>
    ELSE (IF Head(rs).finish # None THEN <<Head(rs).finish[1]>> ELSE <<>>)
         \o FinishesOf(Tail(rs))

\* C8: a call of _summarize returns exactly one summary per distinct club of
\* its records, holding the count, the wins and losses sums and the non-absent
\* finishes in encounter order of that club's records; a second call returns
\* the same values, not accumulated ones.
C8_SummariesAreFreshPerClubTotals ==
    calls >= 1 =>
        /\ {summaries[p].club : p \in 1..Len(summaries)}
             = {records[i].club : i \in 1..Len(records)}
        /\ \A p, q \in 1..Len(summaries) :
             summaries[p].club = summaries[q].club => p = q
        /\ \A p \in 1..Len(summaries) :
             LET s == summaries[p]
                 rs == RecordsOf(s.club)
             IN  /\ s.tournaments = Len(rs)
                 /\ s.wins = SumWins(rs)
                 /\ s.losses = SumLosses(rs)
                 /\ s.finishes = FinishesOf(rs)

\* C8 witness: the second call has returned, two clubs that differ in case
\* only each have a summary, and one of them collected two finishes.
C8_Witness ==
    /\ calls = 2 /\ sum_pc = "ready"
    /\ Len(summaries) = 2
    /\ \E p \in 1..2 : summaries[p].finishes = <<3, 1>> /\ summaries[p].tournaments = 2

(***************************************************************************)
(* ReportGenerator.rank_clubs                                              *)
(***************************************************************************)
MaxClubs == 2

\* characters in code point order
CodePoints ==
    <<" ", "-", "/">> \o DigitChars \o UpperCase \o LowerCase
Ord(c) == CHOOSE i \in 1..Len(CodePoints) : CodePoints[i] = c

\* str < str: by code point at the first difference, a proper prefix first
RECURSIVE StrLess(_, _)
StrLess(a, b) ==
    IF b = <<>> THEN FALSE
    ELSE IF a = <<>> THEN TRUE
    ELSE IF Head(a) # Head(b) THEN Ord(Head(a)) < Ord(Head(b))
    ELSE StrLess(Tail(a), Tail(b))

RECURSIVE SumSeq(_)
SumSeq(xs) == IF xs = <<>> THEN 0 ELSE Head(xs) + SumSeq(Tail(xs))

\* ClubSummary.win_pct as the fraction <<numerator, denominator>>; the float
\* quotients of such small integers are equal or ordered as the fractions are
win_pct(summary) ==
    LET games == summary.wins + summary.losses
    IN  IF games # 0 THEN <<summary.wins, games>> ELSE <<0, 1>>

\* ClubSummary.average_finish as a fraction, None without finishes
average_finish(summary) ==
    IF summary.finishes # <<>>
    THEN Some(<<SumSeq(summary.finishes), Len(summary.finishes)>>)
    ELSE None

\* fractions with positive denominators
FracLess(x, y) == x[1] * y[2] < y[1] * x[2]
FracEq(x, y) == x[1] * y[2] = y[1] * x[2]

\* avg_finish of sort_key: float("inf") stands in for None
AvgLess(a, b) ==
    IF a = None THEN FALSE
    ELSE IF b = None THEN TRUE
    ELSE FracLess(a[1], b[1])
AvgEq(a, b) ==
    IF a = None \/ b = None THEN a = b ELSE FracEq(a[1], b[1])

\* sort_key(a) < sort_key(b) with None taken for an average finish of 0
SortKeyLessNoneFirst(a, b) ==
    LET avg(s) == IF average_finish(s) # None THEN average_finish(s) ELSE Some(<<0, 1>>)
    IN  IF ~FracEq(win_pct(a), win_pct(b)) THEN FracLess(win_pct(b), win_pct(a))
        ELSE IF a.wins # b.wins THEN b.wins < a.wins
        ELSE IF ~AvgEq(avg(a), avg(b)) THEN AvgLess(avg(a), avg(b))
        ELSE StrLess(a.club, b.club)

\* sort_key(a) < sort_key(b): tuples compare at their first unequal element
SortKeyLess(a, b) ==
    IF ~FracEq(win_pct(a), win_pct(b)) THEN FracLess(win_pct(b), win_pct(a))
    ELSE IF a.wins # b.wins THEN b.wins < a.wins
    ELSE IF ~AvgEq(average_finish(a), average_finish(b))
         THEN AvgLess(average_finish(a), average_finish(b))
    ELSE StrLess(a.club, b.club)

\* x put into a sorted list, after every element it is not less than
RECURSIVE InsertSorted(_, _)
InsertSorted(sorted, x) ==
    IF sorted = <<>> THEN <<x>>
    ELSE IF SortKeyLess(x, Head(sorted)) THEN <<x>> \o sorted
    ELSE <<Head(sorted)>> \o InsertSorted(Tail(sorted), x)

\* sorted(clubs, key=sort_key): the stable ascending order
RECURSIVE rank_clubs(_)
rank_clubs(cs) ==
    IF cs = <<>> THEN <<>>
    ELSE InsertSorted(rank_clubs(SubSeq(cs, 1, Len(cs) - 1)), cs[Len(cs)])

SummaryInputs ==
    { [club |-> c, tournaments |-> 2, wins |-> wl[1], losses |-> wl[2], finishes |-> f] :
        c \in {<<"A","c","e","s">>, <<"B","e","e","s">>},
        wl \in {<<0, 0>>, <<0, 1>>, <<1, 1>>, <<2, 2>>, <<2, 0>>},
        f \in {<<>>, <<1>>, <<1, 2>>} }

RankInit ==
    /\ clubs \in SeqsUpTo(SummaryInputs, MaxClubs)
    /\ ranked = <<>>
    /\ rank_pc = "ready"

Rank ==
    /\ rank_pc = "ready"
    /\ ranked' = rank_clubs(clubs)
    /\ rank_pc' = "done"
    /\ UNCHANGED clubs
    /\ UNCHANGED nonRankVars

RankNext == Rank

(***************************************************************************)
(* Claims about ranking                                                    *)
(***************************************************************************)
Occurrences(xs, x) == Cardinality({i \in 1..Len(xs) : xs[i] = x})

\* a may stand before b: higher win percentage; or the same and more wins; or
\* those the same and a lower average finish, an absent one counting as
\* +infinity; or all three the same and a.club <= b.club
MayPrecede(a, b) ==
    LET pa == win_pct(a)
        pb == win_pct(b)
        fa == a.finishes
        fb == b.finishes
        avgSame == IF fa = <<>> \/ fb = <<>> THEN fa = <<>> /\ fb = <<>>
                   ELSE SumSeq(fa) * Len(fb) = SumSeq(fb) * Len(fa)
        avgLower == fa # <<>> /\ (fb = <<>> \/ SumSeq(fa) * Len(fb) < SumSeq(fb) * Len(fa))
    IN  \/ pa[1] * pb[2] > pb[1] * pa[2]
        \/ /\ pa[1] * pb[2] = pb[1] * pa[2]
           /\ \/ a.wins > b.wins
              \/ /\ a.wins = b.wins
                 /\ \/ avgLower
                    \/ avgSame /\ (a.club = b.club \/ StrLess(a.club, b.club))

\* C1: rank_clubs returns a permutation of its input in which every summary
\* placed before another may precede it under the ranking rule.
C1_RankIsOrderedPermutation ==
    rank_pc = "done" =>
        /\ Len(ranked) = Len(clubs)
        /\ \A i \in 1..Len(clubs) :
             Occurrences(ranked, clubs[i]) = Occurrences(clubs, clubs[i])
        /\ \A i, j \in 1..Len(ranked) :
             i < j => MayPrecede(ranked[i], ranked[j])

\* C1 witness: two clubs tied on win percentage and wins, the one without a
\* recorded finish given first and ranked last.
C1_Witness ==
    /\ rank_pc = "done"
    /\ Len(clubs) = 2
    /\ FracEq(win_pct(clubs[1]), win_pct(clubs[2])) /\ clubs[1].wins = clubs[2].wins
    /\ clubs[1].finishes = <<>> /\ clubs[2].finishes # <<>>
    /\ ranked = <<clubs[2], clubs[1]>>

(***************************************************************************)
(* ReportGenerator.determine_weekend                                       *)
(***************************************************************************)
MaxDates == 2
MaxOrdinal == 16

\* dates are proleptic Gregorian ordinals: date.min (0001-01-01, a Monday) is 1
MinOrdinal == 1
SaturdayWeekday == 5

\* date.weekday(): Monday is 0
weekday(d) == (d + 6) % 7

\* date - timedelta(days): None stands for the OverflowError below date.min
DateMinusDays(d, days) == IF d - days >= MinOrdinal THEN Some(d - days) ELSE None

RECURSIVE MaxOf(_)
MaxOf(ds) ==
    IF Len(ds) = 1 THEN ds[1]
    ELSE IF Head(ds) >= MaxOf(Tail(ds)) THEN Head(ds) ELSE MaxOf(Tail(ds))

\* days back from latest to the Saturday, counted from Sunday instead
DaysSinceSunday(latest) == (weekday(latest) - 6) % 7

days_since_saturday(latest) == (weekday(latest) - SaturdayWeekday) % 7

\* determine_weekend(start, end): <<start, end>>, or None when it raises
\* (the dates drawn below stay far from date.max, so start + 1 day and
\* saturday + 1 day never overflow)
determine_weekend(dates, start, end) ==
    LET end1 == IF start # None /\ end = None THEN Some(start[1] + 1) ELSE end
    IN  IF start # None /\ end1 # None THEN Some(<<start[1], end1[1]>>)
        ELSE LET latest == MaxOf(dates)
                 saturday == DateMinusDays(latest, days_since_saturday(latest))
             IN  IF saturday = None THEN None
                 ELSE Some(<<saturday[1], saturday[1] + 1>>)

WeekendInit ==
    /\ result_dates \in SeqsUpTo(MinOrdinal..MaxOrdinal, MaxDates) \ {<<>>}
    /\ weekend_args \in {None, Some(3)} \X {None, Some(9)}
    /\ weekend = None
    /\ weekend_pc = "ready"

DetermineWeekend ==
    /\ weekend_pc = "ready"
    /\ weekend' = determine_weekend(result_dates, weekend_args[1], weekend_args[2])
    /\ weekend_pc' = IF weekend' = None THEN "raised" ELSE "done"
    /\ UNCHANGED <<result_dates, weekend_args>>
    /\ UNCHANGED nonWeekendVars

WeekendNext == DetermineWeekend

(***************************************************************************)
(* Claims about the weekend window                                         *)
(***************************************************************************)
\* ordinal 1 is a Monday, so Saturdays are the ordinals 6, 13, 20, ...
IsSaturday(d) == d % 7 = 6

DefaultWindowOk ==
    /\ weekend_pc = "done"
    /\ LET latest == MaxOf(result_dates)
           S == weekend[1][1]
       IN  /\ weekend[1] = <<S, S + 1>>
           /\ IsSaturday(S)
           /\ S <= latest
           /\ latest - S < 7

ScrapeIdle ==
    /\ urls = <<>> /\ web = <<>> /\ scrape_pc = "idle" /\ fetched = <<>>
    /\ all_results = <<>> /\ csv_file = <<>> /\ returned = None

SummarizeIdle ==
    /\ records = <<>> /\ totals = <<>> /\ sum_pc = "idle" /\ sum_i = 0
    /\ summaries = <<>> /\ calls = 0

RankIdle == clubs = <<>> /\ ranked = <<>> /\ rank_pc = "idle"

WeekendIdle ==
    /\ result_dates = <<>> /\ weekend_args = <<None, None>>
    /\ weekend = None /\ weekend_pc = "idle"

InitParser ==
    /\ ParserInit
    /\ IngestIdle
    /\ ScrapeIdle
    /\ SummarizeIdle
    /\ RankIdle
    /\ WeekendIdle

SpecParser == InitParser /\ [][ParserNext]_vars

InitIngest ==
    /\ ParserInit
    /\ IngestInit
    /\ ScrapeIdle
    /\ SummarizeIdle
    /\ RankIdle
    /\ WeekendIdle

SpecIngest == InitIngest /\ [][IngestNext]_vars

InitScrape ==
    /\ ParserInit
    /\ IngestIdle
    /\ ScrapeInit
    /\ SummarizeIdle
    /\ RankIdle
    /\ WeekendIdle

SpecScrape == InitScrape /\ [][ScrapeNext]_vars

InitSummarize ==
    /\ ParserInit
    /\ IngestIdle
    /\ ScrapeIdle
    /\ SummarizeInit
    /\ RankIdle
    /\ WeekendIdle

SpecSummarize == InitSummarize /\ [][SummarizeNext]_vars

InitRank ==
    /\ ParserInit
    /\ IngestIdle
    /\ ScrapeIdle
    /\ SummarizeIdle
    /\ RankInit
    /\ WeekendIdle

SpecRank == InitRank /\ [][RankNext]_vars

InitWeekend ==
    /\ ParserInit
    /\ IngestIdle
    /\ ScrapeIdle
    /\ SummarizeIdle
    /\ RankIdle
    /\ WeekendInit

SpecWeekend == InitWeekend /\ [][WeekendNext]_vars

====
